---------------------------- MODULE Spec2Model ----------------------------
(***************************************************************************)
(* GTP session of the NoGo player (A2'/NoGo2/gtp_connection.py): the       *)
(* command dispatcher get_cmd, its handlers, and the time-bounded          *)
(* alpha-beta solver.  One action per input line; a handler, with every    *)
(* call it makes, is one step.                                             *)
(*                                                                         *)
(* GoBoard and GoBoardUtil (board.py, board_util.py) are imported by the   *)
(* file but are not part of the sources at hand; they are modelled from    *)
(* their documented interface (NoGo rules: a move is rejected when the     *)
(* point is occupied, when it captures, or when it is suicide; the side    *)
(* to move that has no legal move has lost).                               *)
(*                                                                         *)
(* Tokens of a line are strings.  The board is modelled at the sizes of    *)
(* Sizes; the size given at construction (7) is replaced by the largest    *)
(* modelled size.                                                          *)
(***************************************************************************)
EXTENDS Integers, Sequences, FiniteSets, TLC

(***************************************************************************)
(* Colours (board_util: EMPTY, BLACK, WHITE, BORDER).                      *)
(***************************************************************************)
EMPTY == 0

BLACK == 1

WHITE == 2

BORDER == 3

None == "None"

Sizes == {1, 2}

DefaultSize == CHOOSE n \in Sizes : \A m \in Sizes : m <= n

\* a clock that runs out during a search does so after at most MaxBudget
\* entries of alphabeta
MaxBudget == 2

\* longest argument list of set_free_handicap that is enumerated
MaxHandicap == 2

opponent(color) == IF color = BLACK THEN WHITE ELSE BLACK

(***************************************************************************)
(* GoBoard: the grid is stored row by row with one border column, so the   *)
(* point of (row, col) is (size + 1) * row + col.                          *)
(***************************************************************************)
NS(size) == size + 1

coord_to_point(row, col, size) == NS(size) * row + col

point_to_coord(point, size) == <<point \div NS(size), point % NS(size)>>

Points(size) == {coord_to_point(r, c, size) : r \in 1..size, c \in 1..size}

EmptyBoard(size) == [p \in Points(size) |-> EMPTY]

SizeOf(b) == CHOOSE n \in Sizes : DOMAIN b = Points(n)

Cell(b, p) == IF p \in DOMAIN b THEN b[p] ELSE BORDER

Neighbors(b, p) == {q \in {p - 1, p + 1, p - NS(SizeOf(b)), p + NS(SizeOf(b))} : q \in DOMAIN b}

RECURSIVE Flood(_, _)
Flood(b, S) ==
    LET S2 == S \cup {q \in DOMAIN b : \E p \in S : q \in Neighbors(b, p) /\ b[q] = b[p]}
    IN  IF S2 = S THEN S ELSE Flood(b, S2)

BlockOf(b, p) == Flood(b, {p})

HasLiberty(b, p) == \E q \in BlockOf(b, p) : \E n \in Neighbors(b, q) : b[n] = EMPTY

\* why the board rejects the move, or None when it accepts it
MoveError(b, point, color) ==
    IF point \notin DOMAIN b THEN "wrong coordinate"
    ELSE IF b[point] # EMPTY THEN "occupied"
    ELSE LET b2 == [b EXCEPT ![point] = color]
         IN  IF \E n \in Neighbors(b, point) : b2[n] = opponent(color) /\ ~HasLiberty(b2, n)
                 THEN "capture"
             ELSE IF ~HasLiberty(b2, point) THEN "suicide"
             ELSE None

AllBoards == UNION {[Points(n) -> {EMPTY, BLACK, WHITE}] : n \in Sizes}

\* f itself, as the explicit table of its values
Tabulated(f) == f @@ <<>>

\* the points where the board accepts a stone of the colour, for every
\* board, computed once
LegalTable ==
    Tabulated([b \in AllBoards |-> Tabulated([color \in {BLACK, WHITE} |->
        {p \in DOMAIN b : MoveError(b, p, color) = None} \cup {}])])

LegalPoints(b, color) == LegalTable[b][color]

check_legal(b, point, color) == point \in LegalPoints(b, color)

(***************************************************************************)
(* Board operations.  A position is the pair (board, to_play).             *)
(***************************************************************************)
\* GoBoard.move: an accepted move places the stone and passes the turn to
\* the opponent of the mover; a rejected move changes nothing.
move(b, tp, point, color) ==
    IF check_legal(b, point, color)
        THEN [ok |-> TRUE, board |-> [b EXCEPT ![point] = color], to_play |-> opponent(color)]
        ELSE [ok |-> FALSE, board |-> b, to_play |-> tp]

\* the colour that has won, or NoWinner (None) while the side to move can move
NoWinner == EMPTY

get_winner(b, tp) == IF LegalPoints(b, tp) = {} THEN opponent(tp) ELSE NoWinner

staticallyEvaluateForToPlay(b, tp) == IF get_winner(b, tp) = tp THEN 1 ELSE -1

(***************************************************************************)
(* GoBoardUtil: tokens and coordinates.                                    *)
(***************************************************************************)
ColorTokens == {"b", "w", "B", "x"}

MoveTokens == {"a1", "a2", "b1", "b2", "c3", "pass"}

lower(tok) ==
    CASE tok = "B" -> "b"
      [] tok = "W" -> "w"
      [] OTHER -> tok

ColumnLetters == <<"a", "b", "c">>

\* the column and row a move token names (0 when it names none)
TokCol(tok) ==
    CASE tok \in {"a1", "a2"} -> 1
      [] tok \in {"b1", "b2"} -> 2
      [] tok \in {"c3"} -> 3
      [] OTHER -> 0

TokRow(tok) ==
    CASE tok \in {"a1", "b1"} -> 1
      [] tok \in {"a2", "b2"} -> 2
      [] tok \in {"c3"} -> 3
      [] OTHER -> 0

color_to_int(tok) ==
    CASE tok = "b" -> [ok |-> TRUE, color |-> BLACK]
      [] tok = "w" -> [ok |-> TRUE, color |-> WHITE]
      [] OTHER -> [ok |-> FALSE, color |-> EMPTY]

\* tag "ok": the (row, col) of the token; "none": a falsy result (pass);
\* "raise": the token names no point of a board of this size
move_to_coord(tok, size) ==
    LET t == lower(tok)
    IN  IF t = "pass" THEN [tag |-> "none", row |-> 0, col |-> 0]
        ELSE IF TokCol(t) \in 1..size /\ TokRow(t) \in 1..size
            THEN [tag |-> "ok", row |-> TokRow(t), col |-> TokCol(t)]
        ELSE [tag |-> "raise", row |-> 0, col |-> 0]

format_point(coord) == ColumnLetters[coord[2]] \o ToString(coord[1])

PointName(point, size) == format_point(point_to_coord(point, size))

\* the points of S in the order of their formatted names (column, then row)
RECURSIVE SortedNames(_, _)
SortedNames(S, size) ==
    IF S = {} THEN <<>>
    ELSE LET key(p) == point_to_coord(p, size)[2] * NS(size) + point_to_coord(p, size)[1]
             first == CHOOSE p \in S : \A q \in S : key(p) <= key(q)
         IN  <<PointName(first, size)>> \o SortedNames(S \ {first}, size)

\* the legal moves of color as the list that .split(' ') yields: the empty
\* string splits into one empty token
generate_legal_moves(b, color) ==
    IF LegalPoints(b, color) = {} THEN <<"">>
    ELSE SortedNames(LegalPoints(b, color), SizeOf(b))

(***************************************************************************)
(* The solver.  A search state is the part of the session the recursion    *)
(* reads and writes: the board and to_play (mutated in place and undone),  *)
(* notdone, winMoves, and the clock.  The clock is sampled once per entry  *)
(* of alphabeta and is monotonic, so a run of the search is fixed by the   *)
(* number of entries that still sample a duration within the time limit:   *)
(* timed = FALSE is a clock that never passes the limit during the search, *)
(* timed = TRUE with left = k lets k entries pass and stops the next one.  *)
(* Values that the code keeps in a local variable are bound as parameters  *)
(* of a local operator.                                                    *)
(***************************************************************************)
Ret(kind, val, st) == [kind |-> kind, val |-> val, st |-> st]

\* duration > self.timelimit, at one entry
TimeExceeded(st) == st.timed /\ st.left = 0

Tick(st) == IF st.timed THEN [st EXCEPT !.left = @ - 1] ELSE st

\* a faulty undo that gives the turn back but leaves the stone
UndoKeepsStone(st, point) == [st EXCEPT !.to_play = opponent(@)]

\* a faulty undo that takes the stone back but not the turn
UndoKeepsToPlay(st, point) == [st EXCEPT !.board[point] = EMPTY]

\* state.board[point] = EMPTY ; state.to_play = opponent(state.to_play)
Undo(st, point) == [st EXCEPT !.board[point] = EMPTY, !.to_play = opponent(@)]

\* state.move(point, state.to_play)
Apply(st, point) ==
    LET Moved(r) == [st EXCEPT !.board = r.board, !.to_play = r.to_play]
    IN  Moved(move(st.board, st.to_play, point, st.to_play))

RECURSIVE alphabeta(_, _, _, _)
RECURSIVE alphabetaLoop(_, _, _, _, _, _)

\* a faulty alphabeta that gives up at the time limit without setting notdone
alphabetaSilentCut(st, alpha, beta, d) ==
    IF st.notdone \/ st.winMoves # <<>> THEN Ret("a", 0, st)
    ELSE IF TimeExceeded(st) THEN Ret("a", 0, st)
    ELSE IF get_winner(st.board, st.to_play) # NoWinner
        THEN Ret("val", staticallyEvaluateForToPlay(st.board, st.to_play), Tick(st))
    ELSE alphabetaLoop(Tick(st), generate_legal_moves(st.board, st.to_play), 1, alpha, beta, d)

\* kind "val": the frame returned the number val; "a": it returned 'a';
\* "raise": an exception left the frame
alphabeta(st, alpha, beta, d) ==
    IF st.notdone \/ st.winMoves # <<>> THEN Ret("a", 0, st)
    ELSE IF TimeExceeded(st) THEN Ret("a", 0, [st EXCEPT !.notdone = TRUE])
    ELSE IF get_winner(st.board, st.to_play) # NoWinner
        THEN Ret("val", staticallyEvaluateForToPlay(st.board, st.to_play), Tick(st))
    ELSE alphabetaLoop(Tick(st), generate_legal_moves(st.board, st.to_play), 1, alpha, beta, d)

\* the for loop of alphabeta from its i-th move on
alphabetaLoop(st, moves, i, alpha, beta, d) ==
    LET m == moves[i]
        \* after the undo: back is the state, value the negated child value
        Judge(back, value) ==
            IF value > alpha /\ d = 0 /\ value >= 0
                THEN Ret("a", 0, [back EXCEPT !.winMoves = Append(@, m)])
            ELSE IF back.notdone \/ back.winMoves # <<>> THEN Ret("a", 0, back)
            ELSE IF value >= beta THEN Ret("val", beta, back)
            ELSE alphabetaLoop(back, moves, i + 1, IF value > alpha THEN value ELSE alpha, beta, d)
        \* int('a') raises, as does a failing child: the bare except
        Returned(point, child) ==
            IF child.kind # "val" THEN Ret("a", 0, Undo(child.st, point))
            ELSE Judge(Undo(child.st, point), -child.val)
        Try(point) == Returned(point, alphabeta(Apply(st, point), -beta, -alpha, d + 1))
        Decoded(coord) ==
            IF coord.tag # "ok" THEN Ret("raise", 0, st)
            ELSE Try(coord_to_point(coord.row, coord.col, SizeOf(st.board)))
    IN  IF i > Len(moves) THEN Ret("val", alpha, st)
        ELSE Decoded(move_to_coord(m, SizeOf(st.board)))

AllClocks == {c \in [timed : BOOLEAN, left : 0..MaxBudget] : ~c.timed => c.left = 0}

\* alphabeta(state, -100000, 100000, 0) as solve_cmd calls it, after it has
\* emptied winMoves and cleared notdone: the run of every position under
\* every clock, computed once
RootRuns ==
    Tabulated([b \in AllBoards |-> Tabulated([tp \in {BLACK, WHITE} |-> Tabulated([clk \in AllClocks |->
        alphabeta([board |-> b, to_play |-> tp, notdone |-> FALSE, winMoves |-> <<>>,
                   timed |-> clk.timed, left |-> clk.left], -100000, 100000, 0)])])])

\* negamaxBoolean: TRUE iff the side to move wins the position (b, tp)
RECURSIVE negamaxBoolean(_, _)
negamaxBoolean(b, tp) ==
    IF get_winner(b, tp) # NoWinner THEN get_winner(b, tp) = tp
    ELSE \E p \in LegalPoints(b, tp) : ~negamaxBoolean([b EXCEPT ![p] = tp], opponent(tp))

(***************************************************************************)
(* The session (GtpConnection).  Handlers are operators from the session   *)
(* record to the session record after the handler; exc marks an exception  *)
(* in flight.  out is what the current line has written to the response    *)
(* stream; probe records, for the properties, whether the line reached a   *)
(* handler and what its solver run did.  starttime is not kept: the clock  *)
(* readings are the clk of Clocks.                                         *)
(***************************************************************************)
VARIABLES board, to_play, komi, timelimit, notdone, winMoves, genCall,
          out, running, pc, probe,
          frames, result, clock, anomaly

\* the search taken frame by frame (see the stepwise search below): the
\* active frames of alphabeta, the value a frame has just returned, the
\* clock of the search, and whether Board reports no winner for a position
\* without a legal move
svars == <<frames, result, clock, anomaly>>

vars == <<board, to_play, komi, timelimit, notdone, winMoves, genCall,
          out, running, pc, probe, frames, result, clock, anomaly>>

\* invoked: a handler was called; searched: solve_cmd ran, for side as the
\* side to move, and its root frame ended as ret; color: the colour genmove
\* decoded; random: genmove called generate_random_move; illegal: genmove's
\* check_legal rejected the chosen move
NoProbe == [invoked |-> FALSE, searched |-> FALSE, side |-> EMPTY, ret |-> "",
            color |-> EMPTY, random |-> FALSE, illegal |-> FALSE]

Session ==
    [board |-> board, to_play |-> to_play, komi |-> komi, timelimit |-> timelimit,
     notdone |-> notdone, winMoves |-> winMoves, genCall |-> genCall,
     out |-> out, running |-> running, probe |-> probe, exc |-> FALSE]

commands ==
    {"protocol_version", "quit", "name", "boardsize", "showboard", "clear_board",
     "komi", "version", "known_command", "set_free_handicap", "genmove",
     "list_commands", "play", "final_score", "legal_moves", "timelimit", "solve"}

argmap ==
    [boardsize |-> <<1, "Usage: boardsize INT">>,
     komi |-> <<1, "Usage: komi FLOAT">>,
     known_command |-> <<1, "Usage: known_command CMD_NAME">>,
     set_free_handicap |-> <<1, "Usage: set_free_handicap MOVE (e.g. A4)">>,
     genmove |-> <<1, "Usage: genmove {w, b}">>,
     play |-> <<2, "Usage: play {b, w} MOVE">>,
     legal_moves |-> <<1, "Usage: legal_moves {w, b}">>,
     timelimit |-> <<1, "Usage: timelimit seconds (1 <= seconds <= 100)">>]

\* sys.stdout.write('= {}\n\n'), sys.stdout.write('? {}\n\n')
respond(s, response) == [s EXCEPT !.out = Append(@, [kind |-> "=", text |-> response])]

\* a faulty error that writes its message with the success prefix
errorAsResponse(s, error_msg) == [s EXCEPT !.out = Append(@, [kind |-> "=", text |-> error_msg])]

error(s, error_msg) == [s EXCEPT !.out = Append(@, [kind |-> "?", text |-> error_msg])]

Raise(s) == [s EXCEPT !.exc = TRUE]

arg_error(cmd, argnum) == cmd \in DOMAIN argmap /\ argmap[cmd][1] > argnum

\* int(), float() of a token: ok = FALSE when the conversion raises
int(tok) ==
    CASE tok = "-1" -> [ok |-> TRUE, val |-> -1]
      [] tok = "1" -> [ok |-> TRUE, val |-> 1]
      [] tok = "2" -> [ok |-> TRUE, val |-> 2]
      [] tok = "101" -> [ok |-> TRUE, val |-> 101]
      [] OTHER -> [ok |-> FALSE, val |-> 0]

\* komi is kept in tenths
float(tok) ==
    CASE tok = "6.5" -> [ok |-> TRUE, val |-> 65]
      [] OTHER -> [ok |-> FALSE, val |-> 0]

reset(s, size) == [s EXCEPT !.board = EmptyBoard(size), !.to_play = BLACK]

protocol_version_cmd(s, args) == respond(s, "2")

\* exit() raises SystemExit, which get_cmd does not catch
quit_cmd(s, args) == [respond(s, "") EXCEPT !.running = FALSE]

name_cmd(s, args) == respond(s, "go_engine.name")

version_cmd(s, args) == respond(s, "go_engine.version")

clear_board_cmd(s, args) == respond(reset(s, SizeOf(s.board)), "")

boardsize_cmd(s, args) ==
    LET Sized(n) == IF n.ok THEN respond(reset(s, n.val), "") ELSE Raise(s)
    IN  Sized(int(args[1]))

showboard_cmd(s, args) == respond(s, "get_twoD_board")

komi_cmd(s, args) ==
    LET Parsed(x) == IF x.ok THEN respond([s EXCEPT !.komi = x.val], "") ELSE Raise(s)
    IN  Parsed(float(args[1]))

known_command_cmd(s, args) ==
    IF args[1] \in commands THEN respond(s, "true") ELSE respond(s, "false")

list_commands_cmd(s, args) == respond(s, "list_commands")

final_score_cmd(s, args) == respond(s, "final_score")

timelimit_cmd(s, args) ==
    LET Parsed(n) == IF n.ok THEN respond([s EXCEPT !.timelimit = n.val], "") ELSE Raise(s)
    IN  Parsed(int(args[1]))

\* the loop of set_free_handicap from its i-th argument on; a rejected
\* stone is only reported on the debug stream
RECURSIVE HandicapLoop(_, _, _)
HandicapLoop(s, args, i) ==
    LET Placed(r) == HandicapLoop([s EXCEPT !.board = r.board, !.to_play = r.to_play], args, i + 1)
        Decoded(coord) ==
            IF coord.tag # "ok" THEN Raise(s)
            ELSE Placed(move(s.board, s.to_play,
                             coord_to_point(coord.row, coord.col, SizeOf(s.board)), BLACK))
    IN  IF i > Len(args) THEN respond(s, "")
        ELSE Decoded(move_to_coord(args[i], SizeOf(s.board)))

set_free_handicap(s, args) == HandicapLoop(reset(s, SizeOf(s.board)), args, 1)

RECURSIVE Join(_)
Join(names) ==
    IF names = <<>> THEN ""
    ELSE IF Len(names) = 1 THEN names[1]
    ELSE names[1] \o " " \o Join(Tail(names))

\* generate_legal_moves as the string it returns
LegalMovesString(b, color) ==
    IF LegalPoints(b, color) = {} THEN "" ELSE Join(generate_legal_moves(b, color))

legal_moves_cmd(s, args) ==
    LET Decoded(c) ==
            IF c.ok THEN respond(s, LegalMovesString(s.board, c.color))
            ELSE respond(s, "Error: " \o lower(args[1]))
    IN  Decoded(color_to_int(lower(args[1])))

play_cmd(s, args) ==
    LET board_color == lower(args[1])
        board_move == args[2]
        Moved(r) ==
            IF ~r.ok THEN s
            ELSE respond([s EXCEPT !.board = r.board, !.to_play = r.to_play], "")
        Decoded(c, coord) ==
            IF ~c.ok
                THEN respond(s, "illegal move: " \o board_color \o " " \o board_move \o " " \o board_color)
            ELSE IF coord.tag = "raise"
                THEN respond(s, "illegal move: " \o board_color \o " " \o board_move \o " wrong coordinate")
            ELSE IF coord.tag = "none" THEN s
            ELSE Moved(move(s.board, s.to_play,
                            coord_to_point(coord.row, coord.col, SizeOf(s.board)), c.color))
    IN  Decoded(color_to_int(board_color), move_to_coord(args[2], SizeOf(s.board)))

\* what the clock can do during a search started with this time limit: the
\* first sample is taken right after starttime, within any limit >= 1 and
\* beyond any limit < 0
Clocks(limit) ==
    {c \in AllClocks :
        /\ limit < 0 => c.timed /\ c.left = 0
        /\ limit >= 1 /\ c.timed => c.left >= 1}

stone == <<"b", "w">>

solve_cmd(s, args, clk) ==
    LET Respond(s2) ==
            IF s2.genCall THEN s2
            ELSE IF s2.winMoves # <<>>
                THEN respond(s2, stone[s2.to_play] \o " " \o s2.winMoves[1])
            ELSE IF s2.notdone THEN respond(s2, "unknown")
            ELSE respond(s2, stone[opponent(s2.to_play)])
        Searched(win, s2) == IF win.kind = "raise" THEN Raise(s2) ELSE Respond(s2)
        Done(win) ==
            Searched(win, [s EXCEPT !.board = win.st.board, !.to_play = win.st.to_play,
                                    !.notdone = win.st.notdone, !.winMoves = win.st.winMoves,
                                    !.probe.searched = TRUE, !.probe.side = s.to_play,
                                    !.probe.ret = win.kind])
    IN  Done(RootRuns[s.board][s.to_play][clk])

\* the rnd-th legal move of color, as generate_random_move draws it
generate_random_move(b, color, rnd) ==
    LET Drawn(names) ==
            IF names = <<>> THEN [ok |-> FALSE, name |-> ""]
            ELSE [ok |-> TRUE, name |-> names[(rnd % Len(names)) + 1]]
    IN  Drawn(SortedNames(LegalPoints(b, color), SizeOf(b)))

\* a faulty genmove that draws a random move whatever the solver recorded
GenmovePlayAlwaysRandom(s, color, rnd) ==
    LET Played(s2, legal, r, board_move) ==
            IF ~legal
                THEN respond(respond([s2 EXCEPT !.probe.illegal = TRUE], "Illegal move: " \o board_move),
                             "Error: Illegal move given by engine")
            ELSE respond([s2 EXCEPT !.board = r.board, !.to_play = r.to_play], board_move)
        Pointed(s2, point) ==
            Played(s2, check_legal(s2.board, point, color),
                   move(s2.board, s2.to_play, point, color),
                   PointName(point, SizeOf(s2.board)))
        Decoded(s2, coord) == Pointed(s2, coord_to_point(coord.row, coord.col, SizeOf(s2.board)))
        Drawn(s2, random) ==
            IF ~random.ok THEN respond(s2, "Error: no legal move")
            ELSE Decoded(s2, move_to_coord(random.name, SizeOf(s2.board)))
    IN  Drawn([s EXCEPT !.genCall = FALSE, !.probe.random = TRUE],
              generate_random_move(s.board, color, rnd))

\* a faulty genmove that answers with the chosen move without asking
\* check_legal and without playing it for the colour
GenmovePlayUnchecked(s, color, rnd) ==
    LET Pointed(s2, point) ==
            respond([s2 EXCEPT !.board[point] = s2.to_play], PointName(point, SizeOf(s2.board)))
        Decoded(s2, coord) == Pointed(s2, coord_to_point(coord.row, coord.col, SizeOf(s2.board)))
        Drawn(s2, random) ==
            IF ~random.ok THEN respond(s2, "Error: no legal move")
            ELSE Decoded(s2, move_to_coord(random.name, SizeOf(s2.board)))
    IN  IF Len(s.winMoves) # 0
            THEN Decoded([s EXCEPT !.genCall = FALSE], move_to_coord(s.winMoves[1], SizeOf(s.board)))
        ELSE Drawn([s EXCEPT !.genCall = FALSE, !.probe.random = TRUE],
                   generate_random_move(s.board, color, rnd))

\* genmove_cmd after the solver has run (lines 342 to 369)
GenmovePlay(s, color, rnd) ==
    LET s1 == [s EXCEPT !.genCall = FALSE]
        \* the RuntimeError is caught by the handler's own except clause
        Played(s2, legal, r, board_move) ==
            IF ~legal
                THEN respond(respond([s2 EXCEPT !.probe.illegal = TRUE], "Illegal move: " \o board_move),
                             "Error: Illegal move given by engine")
            ELSE respond([s2 EXCEPT !.board = r.board, !.to_play = r.to_play], board_move)
        Pointed(s2, point) ==
            Played(s2, check_legal(s2.board, point, color),
                   move(s2.board, s2.to_play, point, color),
                   PointName(point, SizeOf(s2.board)))
        Decoded(s2, coord) == Pointed(s2, coord_to_point(coord.row, coord.col, SizeOf(s2.board)))
        \* no legal move: generate_random_move has no point to return and the
        \* conversions of lines 351 to 354 raise
        Drawn(s2, random) ==
            IF ~random.ok THEN respond(s2, "Error: no legal move")
            ELSE Decoded(s2, move_to_coord(random.name, SizeOf(s2.board)))
    IN  IF Len(s1.winMoves) # 0
            THEN Decoded(s1, move_to_coord(s1.winMoves[1], SizeOf(s1.board)))
        ELSE Drawn([s1 EXCEPT !.probe.random = TRUE], generate_random_move(s1.board, color, rnd))

genmove_cmd(s, args, clk, rnd) ==
    LET s1 == [s EXCEPT !.notdone = FALSE]
        Searched(c, s3) ==
            IF s3.exc THEN respond([s3 EXCEPT !.exc = FALSE], "Error: solve")
            ELSE GenmovePlay(s3, c.color, rnd)
        Decoded(c) ==
            IF ~c.ok THEN respond(s1, "Error: " \o lower(args[1]))
            ELSE IF get_winner(s1.board, s1.to_play) # NoWinner THEN respond(s1, "resign")
            ELSE Searched(c, solve_cmd([s1 EXCEPT !.winMoves = <<>>, !.genCall = TRUE,
                                                  !.probe.color = c.color,
                                                  !.to_play = IF args[1] = "b" THEN BLACK ELSE WHITE],
                                       args, clk))
    IN  Decoded(color_to_int(lower(args[1])))

\* self.commands[command_name](args)
Invoke(s, name, args, clk, rnd) ==
    CASE name = "protocol_version" -> protocol_version_cmd(s, args)
      [] name = "quit" -> quit_cmd(s, args)
      [] name = "name" -> name_cmd(s, args)
      [] name = "boardsize" -> boardsize_cmd(s, args)
      [] name = "showboard" -> showboard_cmd(s, args)
      [] name = "clear_board" -> clear_board_cmd(s, args)
      [] name = "komi" -> komi_cmd(s, args)
      [] name = "version" -> version_cmd(s, args)
      [] name = "known_command" -> known_command_cmd(s, args)
      [] name = "set_free_handicap" -> set_free_handicap(s, args)
      [] name = "genmove" -> genmove_cmd(s, args, clk, rnd)
      [] name = "list_commands" -> list_commands_cmd(s, args)
      [] name = "play" -> play_cmd(s, args)
      [] name = "final_score" -> final_score_cmd(s, args)
      [] name = "legal_moves" -> legal_moves_cmd(s, args)
      [] name = "timelimit" -> timelimit_cmd(s, args)
      [] name = "solve" -> solve_cmd(s, args, clk)

\* get_cmd for a line already split into command_name and args; an
\* exception that leaves get_cmd ends start_connection
get_cmd(s, name, args, clk, rnd) ==
    LET Caught(done) ==
            IF done.exc THEN [done EXCEPT !.exc = FALSE, !.running = FALSE] ELSE done
    IN  IF name = "play" /\ argmap[name][1] # Len(args)
            THEN IF args = <<>> THEN [s EXCEPT !.running = FALSE]
                 ELSE respond(s, "illegal move: " \o args[1] \o " wrong number of arguments")
        ELSE IF arg_error(name, Len(args)) THEN error(s, argmap[name][2])
        ELSE IF name \in commands
            THEN Caught(Invoke([s EXCEPT !.probe.invoked = TRUE], name, args, clk, rnd))
        ELSE error(s, "Unknown command")

(***************************************************************************)
(* The lines the controller sends.                                         *)
(***************************************************************************)
NoClock == [timed |-> FALSE, left |-> 0]

\* no frame has returned
NoResult == [kind |-> "none", val |-> 0]

Rnds == 0..(Cardinality(Points(DefaultSize)) - 1)

HandicapTokens == {"a1", "b2", "c3", "pass"}

RECURSIVE SeqsUpTo(_, _)
SeqsUpTo(S, n) ==
    IF n = 0 THEN {<<>>}
    ELSE LET Shorter(Q) == Q \cup {Append(q, x) : q \in {t \in Q : Len(t) = n - 1}, x \in S}
         IN  Shorter(SeqsUpTo(S, n - 1))

HandicapArgs == SeqsUpTo(HandicapTokens, MaxHandicap)

PlayArgs ==
    {<<>>} \cup {<<c>> : c \in ColorTokens} \cup (ColorTokens \X MoveTokens)
        \cup {<<"b", "a1", "a2">>}

ColorArgs == {<<>>} \cup {<<c>> : c \in ColorTokens}

Init ==
    /\ board = EmptyBoard(DefaultSize)
    /\ to_play = BLACK
    /\ komi = 0
    /\ timelimit = 1
    /\ notdone = FALSE
    /\ winMoves = <<>>
    /\ genCall = FALSE
    /\ out = <<>>
    /\ running = TRUE
    /\ pc = "get_cmd"
    /\ probe = NoProbe
    /\ frames = <<>>
    /\ result = NoResult
    /\ clock = NoClock
    /\ anomaly = FALSE

\* start_connection: get_cmd(line) for the line that was read
Line(name, args, clk, rnd) ==
    /\ running
    /\ pc = "get_cmd"
    /\ \E s \in {get_cmd(Session, name, args, clk, rnd)} :
           /\ board' = s.board
           /\ to_play' = s.to_play
           /\ komi' = s.komi
           /\ timelimit' = s.timelimit
           /\ notdone' = s.notdone
           /\ winMoves' = s.winMoves
           /\ genCall' = s.genCall
           /\ out' = s.out
           /\ running' = s.running
           /\ probe' = s.probe
    /\ pc' = "readline"
    /\ UNCHANGED svars

\* start_connection: line = sys.stdin.readline(); the controller has taken
\* the response to the previous line
readline ==
    /\ running
    /\ pc = "readline"
    /\ pc' = "get_cmd"
    /\ out' = <<>>
    /\ probe' = NoProbe
    /\ UNCHANGED <<board, to_play, komi, timelimit, notdone, winMoves, genCall, running>>
    /\ UNCHANGED svars

(***************************************************************************)
(* The raw line, as get_cmd receives it.  A line is a sequence of atoms: a  *)
(* blank, a tab, "#", a run of digits, a run of letters, and the newline    *)
(* that ends it.                                                            *)
(***************************************************************************)
Atoms == {" ", "\t", "#", "12", "name"}

Digits == {"12"}

\* what str.split() and str.lstrip() take for whitespace
Whitespace == {" ", "\t", "\r", "\n"}

MaxLine == 2

RawLines == {l \o <<"\n">> : l \in SeqsUpTo(Atoms, MaxLine)}

RECURSIVE lstrip(_, _)
lstrip(command, chars) ==
    IF command # <<>> /\ command[1] \in chars THEN lstrip(Tail(command), chars) ELSE command

RECURSIVE rstrip(_, _)
rstrip(command, chars) ==
    IF command # <<>> /\ command[Len(command)] \in chars
        THEN rstrip(SubSeq(command, 1, Len(command) - 1), chars)
    ELSE command

strip(command, chars) == rstrip(lstrip(command, chars), chars)

\* command.split(): the maximal runs of atoms that are not whitespace
RECURSIVE split(_, _)
split(command, word) ==
    IF command = <<>> THEN (IF word = "" THEN <<>> ELSE <<word>>)
    ELSE IF command[1] \in Whitespace
        THEN (IF word = "" THEN <<>> ELSE <<word>>) \o split(Tail(command), "")
    ELSE split(Tail(command), word \o command[1])

\* lines 102 to 113 of get_cmd: <<>> when the line is dropped, else
\* elements (the command name followed by its arguments)
elements(command) ==
    IF Len(strip(command, {" ", "\r", "\t"})) = 0 THEN <<>>
    ELSE IF command[1] = "#" THEN <<>>
    ELSE IF command[1] \in Digits THEN split(lstrip(lstrip(command, Digits), Whitespace), "")
    ELSE split(command, "")

\* get_cmd(line) for a raw line
RawLine(command) ==
    \E e \in {elements(command)} :
        IF e = <<>>
            THEN /\ running
                 /\ pc = "get_cmd"
                 /\ pc' = "readline"
                 /\ UNCHANGED <<board, to_play, komi, timelimit, notdone, winMoves, genCall,
                                out, running, probe>>
                 /\ UNCHANGED svars
        ELSE Line(e[1], Tail(e), NoClock, 0)

Raw == \E command \in RawLines : RawLine(command)

Introspect ==
    \E name \in {"protocol_version", "name", "version", "list_commands", "showboard", "final_score"} :
        Line(name, <<>>, NoClock, 0)

KnownCommand == \E args \in {<<>>, <<"quit">>, <<"bogus">>} : Line("known_command", args, NoClock, 0)

Unknown == Line("bogus", <<>>, NoClock, 0)

Quit == Line("quit", <<>>, NoClock, 0)

Boardsize == \E args \in {<<>>, <<"1">>, <<"2">>, <<"x">>} : Line("boardsize", args, NoClock, 0)

ClearBoard == Line("clear_board", <<>>, NoClock, 0)

Komi == \E args \in {<<>>, <<"6.5">>, <<"x">>} : Line("komi", args, NoClock, 0)

Timelimit == \E args \in {<<>>, <<"-1">>, <<"101">>, <<"x">>} : Line("timelimit", args, NoClock, 0)

SetFreeHandicap == \E args \in HandicapArgs : Line("set_free_handicap", args, NoClock, 0)

Play == \E args \in PlayArgs : Line("play", args, NoClock, 0)

LegalMoves == \E args \in ColorArgs : Line("legal_moves", args, NoClock, 0)

Genmove == \E args \in ColorArgs, clk \in Clocks(timelimit), rnd \in Rnds : Line("genmove", args, clk, rnd)

Solve == \E clk \in Clocks(timelimit) : Line("solve", <<>>, clk, 0)

Next ==
    \/ readline
    \/ Raw
    \/ Introspect
    \/ KnownCommand
    \/ Unknown
    \/ Quit
    \/ Boardsize
    \/ ClearBoard
    \/ Komi
    \/ Timelimit
    \/ SetFreeHandicap
    \/ Play
    \/ LegalMoves
    \/ Genmove
    \/ Solve

Spec == Init /\ [][Next]_vars

(***************************************************************************)
(* The stepwise search: solve_cmd with alphabeta taken one frame step at a *)
(* time on the session's own board, which the search mutates in place.     *)
(* A frame keeps its window, its move list, the index i of the move under  *)
(* examination, the point it has played, and the position it was entered   *)
(* with.  pc is "alphabeta" at the entry of the top frame, "for" at the    *)
(* head of its loop, and "returned" when a frame has handed result to the  *)
(* frame below it, or to solve_cmd when no frame is left.                  *)
(***************************************************************************)
Frame(alpha, beta, b, tp) ==
    [alpha |-> alpha, beta |-> beta, moves |-> <<>>, i |-> 0, point |-> 0,
     board |-> b, to_play |-> tp]

Position == [board |-> board, to_play |-> to_play]

\* state.get_winner() as the search sees it
Reported(b, tp) == IF anomaly THEN NoWinner ELSE get_winner(b, tp)

\* the top frame returns: kind "val", "a" or "raise"
Pop(kind, val) ==
    /\ frames' = SubSeq(frames, 1, Len(frames) - 1)
    /\ result' = [kind |-> kind, val |-> val]
    /\ pc' = "returned"

\* solve_cmd up to its call of alphabeta (lines 381 to 386)
SolveBegin ==
    /\ running
    /\ pc = "get_cmd"
    /\ winMoves' = <<>>
    /\ notdone' = FALSE
    /\ \E clk \in Clocks(timelimit) : clock' = clk
    /\ \E a \in BOOLEAN : anomaly' = a
    /\ frames' = <<Frame(-100000, 100000, board, to_play)>>
    /\ result' = NoResult
    /\ probe' = [NoProbe EXCEPT !.invoked = TRUE]
    /\ pc' = "alphabeta"
    /\ UNCHANGED <<board, to_play, komi, timelimit, genCall, out, running>>

\* alphabeta from its entry to the head of its loop (lines 437 to 448)
Enter ==
    /\ pc = "alphabeta"
    /\ IF notdone \/ winMoves # <<>>
           THEN Pop("a", 0) /\ UNCHANGED <<notdone, clock>>
       ELSE IF TimeExceeded(clock)
           THEN Pop("a", 0) /\ notdone' = TRUE /\ UNCHANGED clock
       ELSE IF Reported(board, to_play) # NoWinner
           THEN /\ Pop("val", staticallyEvaluateForToPlay(board, to_play))
                /\ clock' = Tick(clock)
                /\ UNCHANGED notdone
       ELSE /\ frames' = [frames EXCEPT ![Len(frames)].moves = generate_legal_moves(board, to_play),
                                         ![Len(frames)].i = 1]
            /\ pc' = "for"
            /\ clock' = Tick(clock)
            /\ UNCHANGED <<notdone, result>>
    /\ UNCHANGED <<board, to_play, komi, timelimit, winMoves, genCall, out, running, probe, anomaly>>

\* the loop has no move left: return alpha (line 477)
LoopEnd ==
    /\ pc = "for"
    /\ frames[Len(frames)].i > Len(frames[Len(frames)].moves)
    /\ Pop("val", frames[Len(frames)].alpha)
    /\ UNCHANGED <<board, to_play, komi, timelimit, notdone, winMoves, genCall, out, running,
                   probe, clock, anomaly>>

\* the loop takes its next move, plays it and calls alphabeta (lines 450 to
\* 456); a move token that does not decode raises out of the frame
Examine ==
    /\ pc = "for"
    /\ frames[Len(frames)].i <= Len(frames[Len(frames)].moves)
    /\ \E f \in {frames[Len(frames)]} :
       \E coord \in {move_to_coord(f.moves[f.i], SizeOf(board))} :
           IF coord.tag # "ok"
               THEN Pop("raise", 0) /\ UNCHANGED <<board, to_play>>
           ELSE \E point \in {coord_to_point(coord.row, coord.col, SizeOf(board))} :
                \E st \in {Apply(Position, point)} :
                    /\ board' = st.board
                    /\ to_play' = st.to_play
                    /\ frames' = Append([frames EXCEPT ![Len(frames)].point = point],
                                        Frame(-f.beta, -f.alpha, st.board, st.to_play))
                    /\ pc' = "alphabeta"
                    /\ UNCHANGED result
    /\ UNCHANGED <<komi, timelimit, notdone, winMoves, genCall, out, running, probe, clock, anomaly>>

\* a faulty except clause that goes on with the next move
CaughtGoesOn(f) ==
    /\ frames' = [frames EXCEPT ![Len(frames)].i = f.i + 1, ![Len(frames)].point = 0]
    /\ result' = NoResult
    /\ pc' = "for"
    /\ UNCHANGED winMoves

\* the except clause of lines 457 to 460, after the undo: the frame gives up
Caught(f) == Pop("a", 0) /\ UNCHANGED winMoves

\* a faulty test that records a move at any depth
RecordsWinAtAnyDepth(f, value) == value > f.alpha /\ value >= 0

\* lines 465 to 467: the move is recorded as winning
RecordsWin(f, value) == value > f.alpha /\ Len(frames) = 1 /\ value >= 0

\* a faulty loop that takes the same move again
AdvanceNowhere(f, value) ==
    /\ frames' = [frames EXCEPT ![Len(frames)].alpha = IF value > f.alpha THEN value ELSE f.alpha,
                                ![Len(frames)].point = 0]
    /\ result' = NoResult
    /\ pc' = "for"
    /\ UNCHANGED winMoves

\* the loop goes on to its next move
Advance(f, value) ==
    /\ frames' = [frames EXCEPT ![Len(frames)].alpha = IF value > f.alpha THEN value ELSE f.alpha,
                                ![Len(frames)].i = f.i + 1,
                                ![Len(frames)].point = 0]
    /\ result' = NoResult
    /\ pc' = "for"
    /\ UNCHANGED winMoves

\* the call of line 456 has returned to the top frame (lines 456 to 475)
Returned ==
    /\ pc = "returned"
    /\ frames # <<>>
    /\ \E f \in {frames[Len(frames)]} :
       \E st \in {Undo(Position, f.point)} :
           /\ board' = st.board
           /\ to_play' = st.to_play
           /\ IF result.kind # "val" THEN Caught(f)
              ELSE \E value \in {-result.val} :
                   IF RecordsWin(f, value)
                       THEN Pop("a", 0) /\ winMoves' = Append(winMoves, f.moves[f.i])
                   ELSE IF notdone \/ winMoves # <<>>
                       THEN Pop("a", 0) /\ UNCHANGED winMoves
                   ELSE IF value >= f.beta
                       THEN Pop("val", f.beta) /\ UNCHANGED winMoves
                   ELSE Advance(f, value)
    /\ UNCHANGED <<komi, timelimit, notdone, genCall, out, running, probe, clock, anomaly>>

\* solve_cmd after alphabeta (lines 387 to 400); an exception that left the
\* root frame leaves solve_cmd and get_cmd
SolveRespond ==
    /\ pc = "returned"
    /\ frames = <<>>
    /\ IF result.kind = "raise"
           THEN running' = FALSE /\ UNCHANGED out
       ELSE /\ running' = running
            /\ out' = IF genCall THEN out
                       ELSE IF winMoves # <<>>
                           THEN Append(out, [kind |-> "=", text |-> stone[to_play] \o " " \o winMoves[1]])
                       ELSE IF notdone THEN Append(out, [kind |-> "=", text |-> "unknown"])
                       ELSE Append(out, [kind |-> "=", text |-> stone[opponent(to_play)]])
    /\ probe' = [probe EXCEPT !.searched = TRUE, !.side = to_play, !.ret = result.kind]
    /\ result' = NoResult
    /\ clock' = NoClock
    /\ anomaly' = FALSE
    /\ pc' = "readline"
    /\ UNCHANGED <<board, to_play, komi, timelimit, notdone, winMoves, genCall, frames>>

SearchNext ==
    \/ readline
    \/ Raw
    \/ Introspect
    \/ KnownCommand
    \/ Unknown
    \/ Quit
    \/ Boardsize
    \/ ClearBoard
    \/ Komi
    \/ Timelimit
    \/ SetFreeHandicap
    \/ Play
    \/ LegalMoves
    \/ SolveBegin
    \/ Enter
    \/ LoopEnd
    \/ Examine
    \/ Returned
    \/ SolveRespond

SearchStep == SolveBegin \/ Enter \/ LoopEnd \/ Examine \/ Returned \/ SolveRespond

\* a search that has begun is not left half way
SearchSpec == Init /\ [][SearchNext]_vars /\ WF_vars(SearchStep)

(***************************************************************************)
(* The solver as a function of the position: solve_cmd called on any       *)
(* position of the board, under any time limit, with whatever an earlier   *)
(* search has left in notdone and winMoves.                                *)
(***************************************************************************)
TimeLimits == {-1, 0, 1}

AnyPosition ==
    /\ board \in AllBoards
    /\ to_play \in {BLACK, WHITE}
    /\ komi = 0
    /\ timelimit \in TimeLimits
    /\ notdone \in BOOLEAN
    /\ winMoves \in {<<>>, <<"a1">>}
    /\ genCall = FALSE
    /\ out = <<>>
    /\ running = TRUE
    /\ pc = "get_cmd"
    /\ probe = NoProbe
    /\ frames = <<>>
    /\ result = NoResult
    /\ clock = NoClock
    /\ anomaly = FALSE

SolverSpec == AnyPosition /\ [][SearchStep]_vars /\ WF_vars(SearchStep)

(***************************************************************************)
(* Properties.  A step of a command action is a line processed by          *)
(* get_cmd: unprimed variables are the session before the line, primed     *)
(* ones the session after it, with out' the responses the line wrote.      *)
(***************************************************************************)
Ok(text) == [kind |-> "=", text |-> text]

Err(text) == [kind |-> "?", text |-> text]

\* the side to move of every position wins it or not, computed once
Wins ==
    Tabulated([b \in AllBoards |-> Tabulated([tp \in {BLACK, WHITE} |-> negamaxBoolean(b, tp)])])

\* a line has just been processed, and it was solve
SolveDone == pc = "readline" /\ probe.searched /\ probe.color = EMPTY

\* a line has just been processed, and it was a genmove that ran the solver
GenmoveSearched == pc = "readline" /\ probe.searched /\ probe.color # EMPTY

\* C1: in a position without a winner that the side to move wins, a solve
\* whose search the clock does not cut short answers "<colour> <move>" with
\* the colour of the side to move before the command and a move that is
\* legal for that side in the position before the command and after which
\* the opponent, to move, loses.
C1_SolveFindsWinningMove ==
    [][(/\ Solve
        /\ get_winner(board, to_play) = NoWinner
        /\ Wins[board][to_play]
        /\ ~notdone')
       => \E p \in LegalPoints(board, to_play) :
            /\ out' = <<Ok(stone[to_play] \o " " \o PointName(p, SizeOf(board)))>>
            /\ ~Wins[[board EXCEPT ![p] = to_play]][opponent(to_play)]]_vars

C1_Witness ==
    /\ SolveDone
    /\ ~notdone
    /\ get_winner(board, to_play) = NoWinner
    /\ Wins[board][to_play]
    /\ Len(winMoves) = 1
    /\ out = <<Ok(stone[to_play] \o " " \o winMoves[1])>>
    /\ Cardinality({p \in DOMAIN board : board[p] # EMPTY}) >= 1

C3_TerminalAnswersWinner ==
    [][(Solve /\ get_winner(board, to_play) # NoWinner)
        => out' = <<Ok(stone[get_winner(board, to_play)])>>]_vars

\* C4: when the solver run of genmove COLOR records a winning move, it
\* searched with COLOR as the side to move, and that move is the answer.
C4_GenmoveSearchesForColor ==
    (GenmoveSearched /\ winMoves # <<>>)
        => probe.side = probe.color /\ out = <<Ok(winMoves[1])>>

\* C5 as stated: genmove draws a random move only after a search that the
\* clock cut short.
C5_RandomOnlyWhenUnknown == (GenmoveSearched /\ probe.random) => notdone

\* C5 as amended: genmove draws a random move exactly when its solver run
\* recorded no winning move, that is when the clock cut the search short or
\* the root frame returned a value without a winning move (a proven loss);
\* it draws none after a search that recorded a winning move.
C5_RandomWhenNoWinningMove ==
    GenmoveSearched =>
        /\ probe.random <=> winMoves = <<>>
        /\ probe.random <=> (notdone \/ probe.ret = "val")
        /\ ~(notdone /\ probe.ret = "val")

\* a random move played after a completed search that found no winning move
C5_Witness ==
    /\ GenmoveSearched
    /\ probe.random
    /\ ~notdone
    /\ probe.ret = "val"
    /\ \E p \in DOMAIN board : out = <<Ok(PointName(p, SizeOf(board)))>>

MoveNames(b) == {PointName(p, SizeOf(b)) : p \in DOMAIN b}

\* C6: a genmove that answers with a move has played it: the move was legal
\* for the decoded colour in the position before the command, the stones
\* differ only in that point, which now holds the colour, and to_play is the
\* opponent of the colour.
C6_GenmovePlaysItsAnswer ==
    [][(Len(out') = 1 /\ out'[1].kind = "=" /\ out'[1].text \in MoveNames(board) /\ Genmove)
        => \E p \in LegalPoints(board, probe'.color) :
            /\ out'[1].text = PointName(p, SizeOf(board))
            /\ board' = [board EXCEPT ![p] = probe'.color]
            /\ to_play' = opponent(probe'.color)]_vars

\* genmove b on the cleared board
C6_Witness ==
    /\ pc = "readline"
    /\ probe.color = BLACK
    /\ to_play = WHITE
    /\ \E p \in DOMAIN board :
        /\ out = <<Ok(PointName(p, SizeOf(board)))>>
        /\ board = [EmptyBoard(DefaultSize) EXCEPT ![p] = BLACK]

\* C7: when check_legal rejects the move genmove chose, one "?" response is
\* written, the position stays as it was, and the failure leaves get_cmd.
C7_IllegalEngineMoveIsFatal ==
    [][(probe'.illegal /\ Genmove)
        => /\ Len(out') = 1
           /\ out'[1].kind = "?"
           /\ board' = board
           /\ ~running']_vars

\* the responses the claim allows for a rejected play
IllegalMoveTexts(args) ==
    {"illegal move: " \o lower(args[1]) \o " " \o args[2] \o " " \o detail :
        detail \in {"occupied", "capture", "suicide", "wrong coordinate", "wrong color", lower(args[1])}}

\* the play the board accepts: both arguments decode and the move is legal
Accepted(b, args) ==
    /\ color_to_int(lower(args[1])).ok
    /\ move_to_coord(args[2], SizeOf(b)).tag = "ok"
    /\ check_legal(b, coord_to_point(move_to_coord(args[2], SizeOf(b)).row,
                                     move_to_coord(args[2], SizeOf(b)).col, SizeOf(b)),
                   color_to_int(lower(args[1])).color)

\* C8: a play with two arguments that is not accepted writes one "?"
\* response "illegal move: <color> <move> <detail>", leaves the stones and
\* to_play as they were and the session running; an accepted play writes
\* the empty success response.
C8_RejectedPlayIsAnError ==
    [][\A args \in ColorTokens \X MoveTokens :
        Line("play", args, NoClock, 0) =>
            IF Accepted(board, args) THEN out' = <<Ok("")>>
            ELSE /\ Len(out') = 1
                 /\ out'[1].kind = "?"
                 /\ out'[1].text \in IllegalMoveTexts(args)
                 /\ board' = board
                 /\ to_play' = to_play
                 /\ running']_vars

\* C9: a play line with any number of arguments but two writes the error
\* response "? illegal move: <first-arg> wrong number of arguments" (some
\* "?" response when there is no first argument), calls no handler, leaves
\* the session as it was and running.
C9_PlayArityError ==
    [][\A args \in {a \in PlayArgs : Len(a) # 2} :
        Line("play", args, NoClock, 0) =>
            /\ Len(out') = 1
            /\ out'[1].kind = "?"
            /\ args # <<>> => out'[1].text = "illegal move: " \o args[1] \o " wrong number of arguments"
            /\ ~probe'.invoked
            /\ running'
            /\ UNCHANGED <<board, to_play, komi, timelimit, notdone, winMoves, genCall>>]_vars

\* C10: for every command but play that declares a number of arguments, a
\* line without arguments writes one "?" response with the usage string of
\* the command, calls no handler, and leaves board, to_play, komi, time
\* limit, notdone, winMoves and genCall as they were.
C10_UsageError ==
    [][\A name \in DOMAIN argmap \ {"play"} :
        Line(name, <<>>, NoClock, 0) =>
            /\ out' = <<Err(argmap[name][2])>>
            /\ ~probe'.invoked
            /\ running'
            /\ UNCHANGED <<board, to_play, komi, timelimit, notdone, winMoves, genCall>>]_vars

\* genmove without a colour, after a solve has left a winning move behind
C10_Witness ==
    /\ pc = "readline"
    /\ out = <<Err("Usage: genmove {w, b}")>>
    /\ ~probe.invoked
    /\ winMoves # <<>>
    /\ komi # 0

\* the error reports genmove writes
GenmoveErrors ==
    {"Error: no legal move", "Error: solve", "Error: Illegal move given by engine"}
        \cup {"Error: " \o lower(c) : c \in ColorTokens}

\* C11: a command either answers with a success response or leaves the
\* stones and to_play as they were; a genmove that ends in an error report
\* leaves them as they were.
C11_SuccessOrPositionUnchanged ==
    [][(pc = "get_cmd" /\ pc' = "readline") =>
        /\ (out' # <<>> /\ out'[1].kind = "=") \/ (board' = board /\ to_play' = to_play)
        /\ (probe'.color # EMPTY /\ out' # <<>> /\ out'[Len(out')].text \in GenmoveErrors)
            => (board' = board /\ to_play' = to_play)]_vars

\* C12: the stored time limit is an integer within 1..100.
C12_TimelimitInRange == timelimit \in 1..100

\* the lines the protocol ignores: after stripping the surrounding
\* whitespace the line is empty, begins with "#", or is only a request id
Ignorable(command) ==
    LET Stripped(t) == t = <<>> \/ t[1] = "#"
        RequestId(t) == t # <<>> /\ \A i \in DOMAIN t : t[i] \in Digits
    IN  Stripped(strip(command, Whitespace)) \/ RequestId(rstrip(command, Whitespace))

\* C13: an empty line, a comment line (also after blanks or tabs) and a
\* line holding only a request id write no response and change nothing of
\* the session.
C13_IgnoredLines ==
    [][\A command \in {c \in RawLines : Ignorable(c)} :
        RawLine(command) =>
            /\ out' = <<>>
            /\ running'
            /\ UNCHANGED <<board, to_play, komi, timelimit, notdone, winMoves, genCall>>]_vars

\* a step of a line that get_cmd drops
Dropped == \E command \in {c \in RawLines : elements(c) = <<>>} : RawLine(command)

\* C18: a line that is neither ignored nor quit writes exactly one response
\* block.
C18_OneResponsePerLine ==
    [][(pc = "get_cmd" /\ pc' = "readline" /\ Len(out') # 1 /\ ~Dropped) => Quit]_vars

\* the search is under way
InSearch == pc \in {"alphabeta", "for", "returned"}

\* alphabeta has returned to solve_cmd
SearchOver == pc = "returned" /\ frames = <<>>

Stones(b) == {p \in DOMAIN b : b[p] # EMPTY}

\* C14: whenever a frame is at the head of its loop, about to examine its
\* next move, the stones and to_play are those the frame was entered with;
\* and when the root frame returns, whatever it returns, they are those
\* solve was called with.
C14_SearchRestoresBoard ==
    [][/\ pc' = "for" =>
            /\ board' = frames'[Len(frames')].board
            /\ to_play' = frames'[Len(frames')].to_play
       /\ (InSearch /\ frames # <<>> /\ frames' = <<>>) =>
            /\ board' = frames[1].board
            /\ to_play' = frames[1].to_play
       /\ (SearchOver /\ pc' = "readline") => (board' = board /\ to_play' = to_play)]_vars

\* a frame below the root has failed and the root has given up, on a board
\* that holds stones
C14_Witness ==
    /\ SearchOver
    /\ anomaly
    /\ result.kind = "a"
    /\ ~notdone
    /\ winMoves = <<>>
    /\ Stones(board) # {}

\* C15: once notdone is set during a search no stone is put on the board
\* and no frame enters its loop again: every frame still active returns
\* 'a'; and notdone stays set until the next solve begins.
C15_TimeExceededShortCircuits ==
    [][/\ (InSearch /\ notdone) =>
            /\ Stones(board') \subseteq Stones(board)
            /\ pc' \in {"returned", "readline"}
            /\ Len(frames') <= Len(frames)
            /\ pc' = "returned" => result'.kind = "a"
       /\ (notdone /\ ~notdone') => pc' = "alphabeta"]_vars

\* the clock has stopped a frame two levels below the root or deeper
C15_Witness ==
    /\ pc = "returned"
    /\ notdone
    /\ Len(frames) >= 2

\* the first move of the enumeration after which the opponent loses
FirstWinning(b, tp) ==
    LET moves == generate_legal_moves(b, tp)
        After(m) == [b EXCEPT ![coord_to_point(move_to_coord(m, SizeOf(b)).row,
                                               move_to_coord(m, SizeOf(b)).col, SizeOf(b))] = tp]
        Winning(i) == ~Wins[After(moves[i])][opponent(tp)]
    IN  moves[CHOOSE i \in DOMAIN moves : Winning(i) /\ \A j \in 1..(i - 1) : ~Winning(j)]

\* C16: a search that is not cut short records a winning move exactly when
\* negamax says the side to move wins, and then the first move of the
\* enumeration that negamax proves winning; winMoves never holds more than
\* one move, and a move is appended only by the root frame.
C16_AgreesWithNegamax ==
    /\ [](Len(winMoves) <= 1)
    /\ []((SearchOver /\ ~anomaly /\ ~notdone) =>
            /\ winMoves # <<>> <=> Wins[board][to_play]
            /\ winMoves # <<>> => winMoves = <<FirstWinning(board, to_play)>>)
    /\ [][(InSearch /\ winMoves' # winMoves) => (Len(frames) = 1 /\ winMoves = <<>>)]_vars

\* the recorded move is not the first move of the enumeration
C16_Witness ==
    /\ SearchOver
    /\ ~anomaly
    /\ ~notdone
    /\ winMoves # <<>>
    /\ winMoves[1] # generate_legal_moves(board, to_play)[1]

\* C17: a frame that finds no winner reported and no legal move returns a
\* value.
C17_EmptyEnumerationIsTerminal ==
    [][(pc = "for" /\ frames[Len(frames)].i = 1 /\ LegalPoints(board, to_play) = {})
        => (pc' = "returned" /\ result'.kind = "val")]_vars

\* C19: a search that has begun ends: alphabeta unwinds and solve_cmd is
\* left; each move the search plays fills one empty point; and the search
\* of a well-formed board ends with a recorded winning move, or cut short
\* by the clock, or with the value of a lost position, one of the three.
C19_SearchTerminates ==
    /\ InSearch ~> (pc = "readline")
    /\ [][(pc = "for" /\ pc' = "alphabeta") =>
            \E p \in DOMAIN board :
                /\ board[p] = EMPTY
                /\ board' = [board EXCEPT ![p] = to_play]]_vars
    /\ []((SearchOver /\ ~anomaly) =>
            \/ winMoves # <<>> /\ ~notdone /\ result.kind = "a"
            \/ winMoves = <<>> /\ notdone /\ result.kind = "a"
            \/ winMoves = <<>> /\ ~notdone /\ result.kind = "val")

\* solve has answered after a search that went through a full board
C19_Witness ==
    /\ pc = "readline"
    /\ probe.searched
    /\ probe.ret = "val"
    /\ Cardinality(Stones(board)) >= 1
    /\ get_winner(board, to_play) = NoWinner
    /\ out = <<Ok(stone[opponent(to_play)])>>

=============================================================================
